---- MODULE Spec2Model ----
(***************************************************************************)
(* tendermint-exporter: one scrape of /metrics.                            *)
(*                                                                         *)
(* Handler (src/main.go:114) calls GetAllData (src/main.go:263), which     *)
(* starts four goroutines (local status, remote status, GitHub release,    *)
(* binary version probe), joins them on a sync.WaitGroup and resolves the  *)
(* four error slots in a fixed order.  Handler then answers 500 or sets    *)
(* the gauges and renders the registry.                                    *)
(*                                                                         *)
(* Strings that the code only copies are TLA+ strings.  Strings the code   *)
(* inspects (version strings, the captured probe output) are sequences of  *)
(* one-character strings.  In a probe output the tokens "M1" and "M2"      *)
(* stand for one well-formed JSON member  "version":"..."  each.           *)
(*                                                                         *)
(* The scrape followed step by step is one call of Handler.  peer is a     *)
(* second call of Handler that net/http runs at the same time in its own   *)
(* goroutine of the same process: "idle", "running" or "responded".        *)
(***************************************************************************)
EXTENDS Integers, Sequences, FiniteSets, TLC

VARIABLES
    RemoteTendermintRpc, GithubOrg, GithubRepo, BinaryPath,
    pc, launched, tpc, wg, panicked,
    localStatus, remoteStatus, releaseInfo, versionInfo,
    localStatusError, remoteStatusError, releaseInfoError, versionInfoError,
    invoked, out, jsonOutput, data, response, peer

config == <<RemoteTendermintRpc, GithubOrg, GithubRepo, BinaryPath>>
slots  == <<localStatus, remoteStatus, releaseInfo, versionInfo,
            localStatusError, remoteStatusError, releaseInfoError, versionInfoError>>
probe  == <<out, jsonOutput>>
vars   == <<config, pc, launched, tpc, wg, panicked, slots, invoked, probe,
            data, response, peer>>

----------------------------------------------------------------------------
(* Bounds *)

MaxOutLen  == 6     \* longest captured probe output, in tokens (probe specification)
MaxVerLen  == 2     \* longest version / tag string (render specification)
MaxElapsed == 1     \* largest value of time.Since(LatestBlockTime), in seconds

----------------------------------------------------------------------------
(* Program constants *)

LocalTendermintRpc        == "http://localhost:26657"
StatusInternalServerError == 500
StatusOK                  == 200

TaskOrder == <<"local", "remote", "release", "version">>
Tasks     == {"local", "remote", "release", "version"}

----------------------------------------------------------------------------
(* Values *)

NoError == [of |-> "none", msg |-> ""]          \* a nil error
Err(id, m) == [of |-> id, msg |-> m]            \* an error value allocated by call `id`

NilStatus == [nil |-> TRUE]                     \* a nil *coretypes.ResultStatus
Status(id, moniker, cu, vp, h) ==
    [nil |-> FALSE, DefaultNodeID |-> id, Moniker |-> moniker, CatchingUp |-> cu,
     VotingPower |-> vp, LatestBlockHeight |-> h]

ZeroReleaseInfo == [Name |-> "", TagName |-> <<>>]
ZeroVersionInfo == [Name |-> "", Version |-> <<>>]

\* Data{err: e}: every other field keeps its zero value
ErrData(e) ==
    [releaseInfo |-> ZeroReleaseInfo, versionInfo |-> ZeroVersionInfo,
     localStatus |-> NilStatus, remoteStatus |-> NilStatus, err |-> e]

NoData     == [none |-> TRUE]                    \* GetAllData has not returned
NoResponse == [written |-> FALSE]                \* nothing written to w yet

----------------------------------------------------------------------------
(* Library functions, modelled by what they compute *)

\* strings.HasPrefix / strings.HasSuffix with a one-character affix
HasPrefix(s, c) == Len(s) >= 1 /\ s[1] = c
HasSuffix(s, c) == Len(s) >= 1 /\ s[Len(s)] = c

\* strings.Contains(s, substr): substr occurs in s at some offset
\* (the empty string occurs everywhere)
Contains(s, substr) ==
    \E i \in 0..(Len(s) - Len(substr)) : SubSeq(s, i + 1, i + Len(substr)) = substr

\* index of the first "\n" in s, 0 when there is none
RECURSIVE IndexNewline(_, _)
IndexNewline(s, i) ==
    IF i > Len(s) THEN 0
    ELSE IF s[i] = "\n" THEN i
    ELSE IndexNewline(s, i + 1)

\* strings.Split(s, "\n"): the pieces between newlines, newlines dropped;
\* n newlines give n+1 pieces, some of them possibly empty
RECURSIVE Split(_)
Split(s) ==
    LET i == IndexNewline(s, 1) IN
    IF i = 0 THEN <<s>>
    ELSE <<SubSeq(s, 1, i - 1)>> \o Split(SubSeq(s, i + 1, Len(s)))

\* JSON insignificant whitespace, as skipped by encoding/json
IsJsonSpace(c) == c \in {" ", "\n", "\r"}

RECURSIVE SkipSpaceLeft(_)
SkipSpaceLeft(s) ==
    IF s # <<>> /\ IsJsonSpace(s[1]) THEN SkipSpaceLeft(Tail(s)) ELSE s

RECURSIVE SkipSpaceRight(_)
SkipSpaceRight(s) ==
    IF s # <<>> /\ IsJsonSpace(s[Len(s)])
    THEN SkipSpaceRight(SubSeq(s, 1, Len(s) - 1)) ELSE s

\* the member tokens and the version string each one carries
Members == {"M1", "M2"}
VersionOfMember(m) == IF m = "M1" THEN <<"1">> ELSE <<"v", "1">>

\* json.Unmarshal(text, &versionInfo) on the token alphabet: text is valid
\* when it is one object  { }  or  { member }  with optional whitespace
\* around every token; anything else is a syntax error and leaves the
\* target untouched.  Result: <<versionInfo, ok>>.
Unmarshal(text) ==
    LET core == SkipSpaceRight(SkipSpaceLeft(text)) IN
    IF Len(core) >= 2 /\ core[1] = "{" /\ core[Len(core)] = "}"
    THEN LET inner == SkipSpaceRight(SkipSpaceLeft(SubSeq(core, 2, Len(core) - 1))) IN
         IF inner = <<>> THEN <<ZeroVersionInfo, TRUE>>
         ELSE IF Len(inner) = 1 /\ inner[1] \in Members
              THEN <<[Name |-> "app", Version |-> VersionOfMember(inner[1])], TRUE>>
              ELSE <<ZeroVersionInfo, FALSE>>
    ELSE <<ZeroVersionInfo, FALSE>>

----------------------------------------------------------------------------
(* Functions of the program *)

BoolToFloat64(value) == IF value THEN 1 ELSE 0

\* bug variant: only the prefix of a line is tested
RECURSIVE FirstJsonLinePrefixOnly(_, _)
FirstJsonLinePrefixOnly(split, input) ==
    IF split = <<>> THEN input
    ELSE IF HasPrefix(Head(split), "{")
         THEN Head(split)
         ELSE FirstJsonLinePrefixOnly(Tail(split), input)

\* the first line that starts with { and ends with }, else the whole input
RECURSIVE FirstJsonLine(_, _)
FirstJsonLine(split, input) ==
    IF split = <<>> THEN input
    ELSE IF HasPrefix(Head(split), "{") /\ HasSuffix(Head(split), "}")
         THEN Head(split)
         ELSE FirstJsonLine(Tail(split), input)

\* bug variant: without a JSON line the last line is returned, not the input
getJsonStringLastLine(input) ==
    LET split == Split(input) IN
    IF \E k \in 1..Len(split) : HasPrefix(split[k], "{") /\ HasSuffix(split[k], "}")
    THEN FirstJsonLine(split, input)
    ELSE split[Len(split)]

getJsonString(input) == FirstJsonLine(Split(input), input)

\* GetBinaryVersion: execFailed is the outcome of exec.Command(...).CombinedOutput(),
\* o the captured output.  Result: [versionInfo, err, jsonOutput].
GetBinaryVersion(execFailed, o) ==
    IF execFailed
    THEN [versionInfo |-> ZeroVersionInfo, err |-> Err("version", "exit status 1"),
          jsonOutput |-> <<>>]
    ELSE LET js == getJsonString(o)
             r  == Unmarshal(js) IN
         IF ~r[2]
         THEN [versionInfo |-> r[1], err |-> Err("version", "invalid character"),
               jsonOutput |-> js]
         ELSE [versionInfo |-> r[1], err |-> NoError, jsonOutput |-> js]

\* bug variant: no check for a nil status
GetNodeStatusNoNilCheck(id, o) ==
    IF o.kind = "newErr" THEN <<NilStatus, Err(id, "invalid url")>>
    ELSE IF o.kind = "statusErr" THEN <<NilStatus, Err(id, "connection refused")>>
    ELSE <<o.status, NoError>>

\* GetNodeStatus(nodeUrl): o is what the RPC client does.  Result: <<status, err>>.
GetNodeStatus(id, o) ==
    IF o.kind = "newErr" THEN <<NilStatus, Err(id, "invalid url")>>
    ELSE IF o.kind = "statusErr" THEN <<NilStatus, Err(id, "connection refused")>>
    ELSE IF o.status = NilStatus THEN <<NilStatus, Err(id, "empty status from node")>>
    ELSE <<o.status, NoError>>

\* GetGithubRelease(url, &releaseInfo): o is what the HTTP round trip does;
\* decoded is what the decoder stored in the target before it returned.
\* Result: <<releaseInfo, err>>.
GetGithubRelease(o) ==
    IF o.kind = "reqErr" THEN <<ZeroReleaseInfo, Err("release", "invalid request")>>
    ELSE IF o.kind = "doErr" THEN <<ZeroReleaseInfo, Err("release", "timeout")>>
    ELSE IF o.kind = "decodeErr" THEN <<o.decoded, Err("release", "cannot unmarshal")>>
    ELSE <<o.decoded, NoError>>

----------------------------------------------------------------------------
(* What the outside world can answer during one scrape *)

\* statuses a node can report; the local node is "L", the reference node "R"
NodeStatuses(id) ==
    IF id = "local"
    THEN {Status("L", "localnode", FALSE, 100, 5), Status("L", "localnode", TRUE, 0, 3)}
    ELSE {Status("R", "remotenode", FALSE, 0, 7)}

RpcOutcomes(id) ==
    {[kind |-> "newErr"], [kind |-> "statusErr"]}
    \cup {[kind |-> "ok", status |-> st] : st \in {NilStatus} \cup NodeStatuses(id)}

Releases ==
    {ZeroReleaseInfo, [Name |-> "one", TagName |-> <<"v", "1">>],
     [Name |-> "two", TagName |-> <<"2">>]}

ReleaseOutcomes ==
    {[kind |-> "reqErr"], [kind |-> "doErr"]}
    \cup {[kind |-> k, decoded |-> r] : k \in {"decodeErr", "ok"}, r \in Releases}

\* captured outputs of the version binary used in the scrape specification
ProbeOutputs ==
    {<<"x", "\n", "{", "M1", "}", "\n", "x">>,
     <<"{", "M2", "}">>,
     <<"{", "}">>,
     <<"x">>,
     <<"{", "\n", "M1", "\n", "}">>}

----------------------------------------------------------------------------
(* State after start-up: configuration loaded, server listening *)

Init ==
    /\ RemoteTendermintRpc \in {"", "https://rpc.cosmos.network:443"}
    /\ GithubOrg \in {"", "cosmos"}
    /\ GithubRepo \in {"", "gaia"}
    /\ BinaryPath \in {"", "/usr/bin/gaiad"}
    /\ pc = "listening"
    /\ launched = 0
    /\ tpc = [t \in Tasks |-> "idle"]
    /\ wg = 0
    /\ panicked = FALSE
    /\ localStatus = NilStatus
    /\ remoteStatus = NilStatus
    /\ releaseInfo = ZeroReleaseInfo
    /\ versionInfo = ZeroVersionInfo
    /\ localStatusError = NoError
    /\ remoteStatusError = NoError
    /\ releaseInfoError = NoError
    /\ versionInfoError = NoError
    /\ invoked = [t \in Tasks |-> 0]
    /\ out = <<>>
    /\ jsonOutput = <<>>
    /\ data = NoData
    /\ response = NoResponse
    /\ peer = "idle"

----------------------------------------------------------------------------
(* sync.WaitGroup *)

\* wg.Done(): the counter drops by one; a negative counter panics, and a
\* panic in a goroutine that nobody recovers ends the process
WgDone ==
    /\ wg' = wg - 1
    /\ panicked' = (wg - 1 < 0)

----------------------------------------------------------------------------
(* Handler and the controlling flow of GetAllData *)

\* a scrape arrives: Handler builds and registers the gauges and calls GetAllData
HandlerBegin ==
    /\ ~panicked /\ pc = "listening"
    /\ pc' = "go"
    /\ UNCHANGED <<config, peer, launched, tpc, wg, panicked, slots, invoked, probe,
                   data, response>>

\* go func() { ... }(): the next goroutine of TaskOrder becomes runnable
Go ==
    /\ ~panicked /\ pc = "go"
    /\ launched' = launched + 1
    /\ tpc' = [tpc EXCEPT ![TaskOrder[launched + 1]] = "ready"]
    /\ pc' = "add"
    /\ UNCHANGED <<config, peer, wg, panicked, slots, invoked, probe, data, response>>

\* wg.Add(1), written after the go statement it belongs to
Add ==
    /\ ~panicked /\ pc = "add"
    /\ wg' = wg + 1
    /\ pc' = IF launched = Len(TaskOrder) THEN "wait" ELSE "go"
    /\ UNCHANGED <<config, peer, launched, tpc, panicked, slots, invoked, probe,
                   data, response>>

\* bug variant: the join gives up waiting as soon as one error slot is set
WaitFirstFailure ==
    /\ ~panicked /\ pc = "wait"
    /\ \/ wg = 0
       \/ localStatusError # NoError
       \/ remoteStatusError # NoError
       \/ releaseInfoError # NoError
       \/ versionInfoError # NoError
    /\ pc' = "resolve"
    /\ UNCHANGED <<config, peer, launched, tpc, wg, panicked, slots, invoked, probe,
                   data, response>>

\* wg.Wait() returns once the counter is zero
Wait ==
    /\ ~panicked /\ pc = "wait"
    /\ wg = 0
    /\ pc' = "resolve"
    /\ UNCHANGED <<config, peer, launched, tpc, wg, panicked, slots, invoked, probe,
                   data, response>>

\* bug variant: the second branch tests localStatusError again, so a remote
\* failure is never reported
ResolutionCopyPaste ==
    IF localStatusError # NoError THEN ErrData(localStatusError)
    ELSE IF localStatusError # NoError THEN ErrData(remoteStatusError)
    ELSE IF releaseInfoError # NoError THEN ErrData(releaseInfoError)
    ELSE IF versionInfoError # NoError THEN ErrData(versionInfoError)
    ELSE [releaseInfo |-> releaseInfo, versionInfo |-> versionInfo,
          localStatus |-> localStatus, remoteStatus |-> remoteStatus,
          err |-> NoError]

\* the if-chain after the join and the final return
Resolution ==
    IF localStatusError # NoError THEN ErrData(localStatusError)
    ELSE IF remoteStatusError # NoError THEN ErrData(remoteStatusError)
    ELSE IF releaseInfoError # NoError THEN ErrData(releaseInfoError)
    ELSE IF versionInfoError # NoError THEN ErrData(versionInfoError)
    ELSE [releaseInfo |-> releaseInfo, versionInfo |-> versionInfo,
          localStatus |-> localStatus, remoteStatus |-> remoteStatus,
          err |-> NoError]

Resolve ==
    /\ ~panicked /\ pc = "resolve"
    /\ data' = Resolution
    /\ pc' = "returned"
    /\ UNCHANGED <<config, peer, launched, tpc, wg, panicked, slots, invoked, probe,
                   response>>

\* bug variant: only one direction of the substring test
VersionMismatchOneWay(tagName, version) == ~Contains(tagName, version)

\* versionMismatch as Handler computes it
VersionMismatch(tagName, version) ==
    ~(Contains(tagName, version) \/ Contains(version, tagName))

Sample(name, labels, value) == [name |-> name, labels |-> labels, value |-> value]

NodeLabels(st) == [id |-> st.DefaultNodeID, moniker |-> st.Moniker]

\* the four gauges Handler always sets from localStatus; elapsed is
\* time.Since(LatestBlockTime)
LocalGauges(d, elapsed) ==
    {Sample("tendermint_node_catching_up", NodeLabels(d.localStatus),
            BoolToFloat64(d.localStatus.CatchingUp)),
     Sample("tendermint_node_voting_power", NodeLabels(d.localStatus),
            d.localStatus.VotingPower),
     Sample("tendermint_node_time_since_latest_block", NodeLabels(d.localStatus),
            elapsed),
     Sample("tendermint_local_node_latest_block", NodeLabels(d.localStatus),
            d.localStatus.LatestBlockHeight)}

\* bug variant: the app version gauge is set without looking at Version
AppVersionGaugeAlways(d) ==
    {Sample("tendermint_node_app_version",
            [id |-> d.localStatus.DefaultNodeID,
             moniker |-> d.localStatus.Moniker,
             version |-> d.versionInfo.Version], 1)}

AppVersionGauge(d) ==
    IF d.versionInfo.Version # <<>>
    THEN {Sample("tendermint_node_app_version",
                 [id |-> d.localStatus.DefaultNodeID,
                  moniker |-> d.localStatus.Moniker,
                  version |-> d.versionInfo.Version], 1)}
    ELSE {}

GithubLatestVersionGauge(d) ==
    IF d.releaseInfo.TagName # <<>>
    THEN {Sample("tendermint_github_latest_version",
                 [organization |-> GithubOrg, repository |-> GithubRepo,
                  version |-> d.releaseInfo.TagName], 1)}
    ELSE {}

LatestVersionMismatchGauge(d) ==
    IF d.versionInfo.Version # <<>> /\ d.releaseInfo.TagName # <<>>
    THEN {Sample("tendermint_latest_version_mismatch",
                 [id |-> d.localStatus.DefaultNodeID,
                  moniker |-> d.localStatus.Moniker,
                  local_version |-> d.versionInfo.Version,
                  remote_version |-> d.releaseInfo.TagName],
                 BoolToFloat64(VersionMismatch(d.releaseInfo.TagName,
                                               d.versionInfo.Version)))}
    ELSE {}

\* bug variant: the labels are copied from the local-node gauge
RemoteNodeLatestBlockGaugeLocalLabels(d) ==
    IF d.remoteStatus # NilStatus
    THEN {Sample("tendermint_remote_node_latest_block",
                 NodeLabels(d.localStatus), d.remoteStatus.LatestBlockHeight)}
    ELSE {}

RemoteNodeLatestBlockGauge(d) ==
    IF d.remoteStatus # NilStatus
    THEN {Sample("tendermint_remote_node_latest_block",
                 NodeLabels(d.remoteStatus), d.remoteStatus.LatestBlockHeight)}
    ELSE {}

\* every sample Handler sets for a Data value with a non-nil localStatus
SetGauges(d, elapsed) ==
    LocalGauges(d, elapsed) \cup AppVersionGauge(d) \cup GithubLatestVersionGauge(d)
    \cup LatestVersionMismatchGauge(d) \cup RemoteNodeLatestBlockGauge(d)

\* bug variant: the return after the 500 is missing, the registry is served too
HandlerFailNoReturn ==
    /\ ~panicked /\ pc = "returned"
    /\ data.err # NoError
    /\ response' = [written |-> TRUE, status |-> StatusInternalServerError,
                    body |-> "Error fetching data: " \o data.err.msg,
                    rendered |-> TRUE, gauges |-> {}]
    /\ pc' = "responded"
    /\ UNCHANGED <<config, peer, launched, tpc, wg, panicked, slots, invoked, probe, data>>

\* data.err != nil: 500 and the error text, then return
HandlerFail ==
    /\ ~panicked /\ pc = "returned"
    /\ data.err # NoError
    /\ response' = [written |-> TRUE, status |-> StatusInternalServerError,
                    body |-> "Error fetching data: " \o data.err.msg,
                    rendered |-> FALSE, gauges |-> {}]
    /\ pc' = "responded"
    /\ UNCHANGED <<config, peer, launched, tpc, wg, panicked, slots, invoked, probe, data>>

\* data.err == nil: set the gauges and let promhttp serve the registry.
\* Reading a field of a nil localStatus panics; net/http recovers a panic of
\* the handler goroutine and drops the connection without a response.
HandlerRender ==
    /\ ~panicked /\ pc = "returned"
    /\ data.err = NoError
    /\ IF data.localStatus = NilStatus
       THEN /\ pc' = "aborted"
            /\ UNCHANGED response
       ELSE /\ \E elapsed \in 0..MaxElapsed :
                 response' = [written |-> TRUE, status |-> StatusOK,
                              body |-> "", rendered |-> TRUE,
                              gauges |-> SetGauges(data, elapsed)]
            /\ pc' = "responded"
    /\ UNCHANGED <<config, peer, launched, tpc, wg, panicked, slots, invoked, probe, data>>

----------------------------------------------------------------------------
(* The four goroutines of GetAllData *)

\* goroutine 1 calls GetNodeStatus(LocalTendermintRpc)
LocalBegin ==
    /\ ~panicked /\ tpc["local"] = "ready"
    /\ invoked' = [invoked EXCEPT !["local"] = @ + 1]
    /\ tpc' = [tpc EXCEPT !["local"] = "fetching"]
    /\ UNCHANGED <<config, peer, pc, launched, wg, panicked, slots, probe, data, response>>

LocalReturn ==
    /\ ~panicked /\ tpc["local"] = "fetching"
    /\ \E o \in RpcOutcomes("local") :
         /\ localStatus' = GetNodeStatus("local", o)[1]
         /\ localStatusError' = GetNodeStatus("local", o)[2]
    /\ tpc' = [tpc EXCEPT !["local"] = "fetched"]
    /\ UNCHANGED <<config, peer, pc, launched, wg, panicked, remoteStatus, releaseInfo,
                   versionInfo, remoteStatusError, releaseInfoError,
                   versionInfoError, invoked, probe, data, response>>

\* goroutine 2: skipped without a remote RPC address
RemoteBegin ==
    /\ ~panicked /\ tpc["remote"] = "ready"
    /\ IF RemoteTendermintRpc = ""
       THEN /\ WgDone
            /\ tpc' = [tpc EXCEPT !["remote"] = "done"]
            /\ UNCHANGED invoked
       ELSE /\ invoked' = [invoked EXCEPT !["remote"] = @ + 1]
            /\ tpc' = [tpc EXCEPT !["remote"] = "fetching"]
            /\ UNCHANGED <<wg, panicked>>
    /\ UNCHANGED <<config, peer, pc, launched, slots, probe, data, response>>

\* bug variant: a failed remote query is tried a second time
RemoteReturnRetryOnce ==
    /\ ~panicked /\ tpc["remote"] = "fetching"
    /\ \E o \in RpcOutcomes("remote") :
         /\ remoteStatus' = GetNodeStatus("remote", o)[1]
         /\ remoteStatusError' = GetNodeStatus("remote", o)[2]
         /\ tpc' = [tpc EXCEPT !["remote"] =
                       IF GetNodeStatus("remote", o)[2] # NoError /\ invoked["remote"] < 2
                       THEN "ready" ELSE "fetched"]
    /\ UNCHANGED <<config, peer, pc, launched, wg, panicked, localStatus, releaseInfo,
                   versionInfo, localStatusError, releaseInfoError,
                   versionInfoError, invoked, probe, data, response>>

\* bug variant: the remote status is stored in the slot of the local status
RemoteReturnWrongSlot ==
    /\ ~panicked /\ tpc["remote"] = "fetching"
    /\ \E o \in RpcOutcomes("remote") :
         /\ localStatus' = GetNodeStatus("remote", o)[1]
         /\ remoteStatusError' = GetNodeStatus("remote", o)[2]
    /\ tpc' = [tpc EXCEPT !["remote"] = "fetched"]
    /\ UNCHANGED <<config, peer, pc, launched, wg, panicked, remoteStatus, releaseInfo,
                   versionInfo, localStatusError, releaseInfoError,
                   versionInfoError, invoked, probe, data, response>>

RemoteReturn ==
    /\ ~panicked /\ tpc["remote"] = "fetching"
    /\ \E o \in RpcOutcomes("remote") :
         /\ remoteStatus' = GetNodeStatus("remote", o)[1]
         /\ remoteStatusError' = GetNodeStatus("remote", o)[2]
    /\ tpc' = [tpc EXCEPT !["remote"] = "fetched"]
    /\ UNCHANGED <<config, peer, pc, launched, wg, panicked, localStatus, releaseInfo,
                   versionInfo, localStatusError, releaseInfoError,
                   versionInfoError, invoked, probe, data, response>>

\* bug variant: && instead of ||, the fetch is skipped only when both are empty
ReleaseBeginBothEmpty ==
    /\ ~panicked /\ tpc["release"] = "ready"
    /\ IF GithubOrg = "" /\ GithubRepo = ""
       THEN /\ WgDone
            /\ tpc' = [tpc EXCEPT !["release"] = "done"]
            /\ UNCHANGED invoked
       ELSE /\ invoked' = [invoked EXCEPT !["release"] = @ + 1]
            /\ tpc' = [tpc EXCEPT !["release"] = "fetching"]
            /\ UNCHANGED <<wg, panicked>>
    /\ UNCHANGED <<config, peer, pc, launched, slots, probe, data, response>>

\* goroutine 3: skipped without GitHub organization or repository
ReleaseBegin ==
    /\ ~panicked /\ tpc["release"] = "ready"
    /\ IF GithubOrg = "" \/ GithubRepo = ""
       THEN /\ WgDone
            /\ tpc' = [tpc EXCEPT !["release"] = "done"]
            /\ UNCHANGED invoked
       ELSE /\ invoked' = [invoked EXCEPT !["release"] = @ + 1]
            /\ tpc' = [tpc EXCEPT !["release"] = "fetching"]
            /\ UNCHANGED <<wg, panicked>>
    /\ UNCHANGED <<config, peer, pc, launched, slots, probe, data, response>>

ReleaseReturn ==
    /\ ~panicked /\ tpc["release"] = "fetching"
    /\ \E o \in ReleaseOutcomes :
         /\ releaseInfo' = GetGithubRelease(o)[1]
         /\ releaseInfoError' = GetGithubRelease(o)[2]
    /\ tpc' = [tpc EXCEPT !["release"] = "fetched"]
    /\ UNCHANGED <<config, peer, pc, launched, wg, panicked, localStatus, remoteStatus,
                   versionInfo, localStatusError, remoteStatusError,
                   versionInfoError, invoked, probe, data, response>>

\* bug variant: no check of BinaryPath, the probe always runs
VersionBeginNoSkip ==
    /\ ~panicked /\ tpc["version"] = "ready"
    /\ invoked' = [invoked EXCEPT !["version"] = @ + 1]
    /\ tpc' = [tpc EXCEPT !["version"] = "fetching"]
    /\ UNCHANGED <<wg, panicked>>
    /\ UNCHANGED <<config, peer, pc, launched, slots, probe, data, response>>

\* goroutine 4: skipped without a binary path
VersionBegin ==
    /\ ~panicked /\ tpc["version"] = "ready"
    /\ IF BinaryPath = ""
       THEN /\ WgDone
            /\ tpc' = [tpc EXCEPT !["version"] = "done"]
            /\ UNCHANGED invoked
       ELSE /\ invoked' = [invoked EXCEPT !["version"] = @ + 1]
            /\ tpc' = [tpc EXCEPT !["version"] = "fetching"]
            /\ UNCHANGED <<wg, panicked>>
    /\ UNCHANGED <<config, peer, pc, launched, slots, probe, data, response>>

\* GetBinaryVersion returns for the output the binary printed
ProbeReturn(execFailed, o) ==
    LET r == GetBinaryVersion(execFailed, o) IN
    /\ ~panicked /\ tpc["version"] = "fetching"
    /\ out' = o
    /\ jsonOutput' = r.jsonOutput
    /\ versionInfo' = r.versionInfo
    /\ versionInfoError' = r.err
    /\ tpc' = [tpc EXCEPT !["version"] = "fetched"]
    /\ UNCHANGED <<config, peer, pc, launched, wg, panicked, localStatus, remoteStatus,
                   releaseInfo, localStatusError, remoteStatusError,
                   releaseInfoError, invoked, data, response>>

VersionReturn ==
    /\ tpc["version"] = "fetching"
    /\ \E execFailed \in BOOLEAN, o \in ProbeOutputs : ProbeReturn(execFailed, o)

\* the wg.Done() that ends a goroutine after its fetch
TaskDone(t) ==
    /\ ~panicked /\ tpc[t] = "fetched"
    /\ WgDone
    /\ tpc' = [tpc EXCEPT ![t] = "done"]
    /\ UNCHANGED <<config, peer, pc, launched, slots, invoked, probe, data, response>>

LocalDone   == TaskDone("local")
RemoteDone  == TaskDone("remote")
ReleaseDone == TaskDone("release")
VersionDone == TaskDone("version")

----------------------------------------------------------------------------
(* One scrape, all interleavings *)

Next ==
    \/ HandlerBegin
    \/ Go
    \/ Add
    \/ Wait
    \/ Resolve
    \/ HandlerFail
    \/ HandlerRender
    \/ LocalBegin
    \/ LocalReturn
    \/ LocalDone
    \/ RemoteBegin
    \/ RemoteReturn
    \/ RemoteDone
    \/ ReleaseBegin
    \/ ReleaseReturn
    \/ ReleaseDone
    \/ VersionBegin
    \/ VersionReturn
    \/ VersionDone

Spec == Init /\ [][Next]_vars

----------------------------------------------------------------------------
(* Two scrapes at the same time *)

\* a second request arrives while the server is up: net/http starts another
\* goroutine that runs Handler with its own registry and its own locals
PeerBegin ==
    /\ ~panicked /\ peer = "idle"
    /\ peer' = "running"
    /\ UNCHANGED <<config, pc, launched, tpc, wg, panicked, slots, invoked, probe,
                   data, response>>

\* the second Handler call writes its response; like every goroutine it
\* needs the process to be alive
PeerRespond ==
    /\ ~panicked /\ peer = "running"
    /\ peer' = "responded"
    /\ UNCHANGED <<config, pc, launched, tpc, wg, panicked, slots, invoked, probe,
                   data, response>>

NextConcurrent == Next \/ PeerBegin \/ PeerRespond

SpecConcurrent == Init /\ [][NextConcurrent]_vars

----------------------------------------------------------------------------
(* The variant of the exporter in src/unnamed/part_001 *)

\* the flag defaults of the variant: every source is configured
InitPart001 ==
    /\ RemoteTendermintRpc = "https://rpc.cosmos.network:443"
    /\ GithubOrg = "cosmos"
    /\ GithubRepo = "gaia"
    /\ BinaryPath = "gaia"
    /\ pc = "listening"
    /\ launched = 0
    /\ tpc = [t \in Tasks |-> "idle"]
    /\ wg = 0
    /\ panicked = FALSE
    /\ localStatus = NilStatus
    /\ remoteStatus = NilStatus
    /\ releaseInfo = ZeroReleaseInfo
    /\ versionInfo = ZeroVersionInfo
    /\ localStatusError = NoError
    /\ remoteStatusError = NoError
    /\ releaseInfoError = NoError
    /\ versionInfoError = NoError
    /\ invoked = [t \in Tasks |-> 0]
    /\ out = <<>>
    /\ jsonOutput = <<>>
    /\ data = NoData
    /\ response = NoResponse
    /\ peer = "idle"

\* GetNodeStatus of the variant hands back what client.Status returned
GetNodeStatusPart001(id, o) ==
    IF o.kind = "newErr" THEN <<NilStatus, Err(id, "invalid url")>>
    ELSE IF o.kind = "statusErr" THEN <<NilStatus, Err(id, "connection refused")>>
    ELSE <<o.status, NoError>>

\* what myClient.Get and the decoder can do
JsonOutcomes ==
    {[kind |-> "getErr"]}
    \cup {[kind |-> k, decoded |-> r] : k \in {"decodeErr", "ok"}, r \in Releases}

\* GetJson(url, &releaseInfo).  Result: <<releaseInfo, err>>.
GetJson(o) ==
    IF o.kind = "getErr" THEN <<ZeroReleaseInfo, Err("release", "timeout")>>
    ELSE IF o.kind = "decodeErr" THEN <<o.decoded, Err("release", "cannot unmarshal")>>
    ELSE <<o.decoded, NoError>>

\* GetNodeVersion decodes the whole captured output.  Result: <<versionInfo, err>>.
GetNodeVersion(execFailed, o) ==
    IF execFailed THEN <<ZeroVersionInfo, Err("version", "exit status 1")>>
    ELSE IF ~Unmarshal(o)[2]
         THEN <<Unmarshal(o)[1], Err("version", "invalid character")>>
         ELSE <<Unmarshal(o)[1], NoError>>

\* the goroutines of the variant call their fetcher whatever the configuration
BeginPart001(t) ==
    /\ ~panicked /\ tpc[t] = "ready"
    /\ invoked' = [invoked EXCEPT ![t] = @ + 1]
    /\ tpc' = [tpc EXCEPT ![t] = "fetching"]
    /\ UNCHANGED <<config, peer, pc, launched, wg, panicked, slots, probe, data, response>>

LocalBeginPart001   == BeginPart001("local")
RemoteBeginPart001  == BeginPart001("remote")
ReleaseBeginPart001 == BeginPart001("release")
VersionBeginPart001 == BeginPart001("version")

LocalReturnPart001 ==
    /\ ~panicked /\ tpc["local"] = "fetching"
    /\ \E o \in RpcOutcomes("local") :
         /\ localStatus' = GetNodeStatusPart001("local", o)[1]
         /\ localStatusError' = GetNodeStatusPart001("local", o)[2]
    /\ tpc' = [tpc EXCEPT !["local"] = "fetched"]
    /\ UNCHANGED <<config, peer, pc, launched, wg, panicked, remoteStatus, releaseInfo,
                   versionInfo, remoteStatusError, releaseInfoError,
                   versionInfoError, invoked, probe, data, response>>

RemoteReturnPart001 ==
    /\ ~panicked /\ tpc["remote"] = "fetching"
    /\ \E o \in RpcOutcomes("remote") :
         /\ remoteStatus' = GetNodeStatusPart001("remote", o)[1]
         /\ remoteStatusError' = GetNodeStatusPart001("remote", o)[2]
    /\ tpc' = [tpc EXCEPT !["remote"] = "fetched"]
    /\ UNCHANGED <<config, peer, pc, launched, wg, panicked, localStatus, releaseInfo,
                   versionInfo, localStatusError, releaseInfoError,
                   versionInfoError, invoked, probe, data, response>>

ReleaseReturnPart001 ==
    /\ ~panicked /\ tpc["release"] = "fetching"
    /\ \E o \in JsonOutcomes :
         /\ releaseInfo' = GetJson(o)[1]
         /\ releaseInfoError' = GetJson(o)[2]
    /\ tpc' = [tpc EXCEPT !["release"] = "fetched"]
    /\ UNCHANGED <<config, peer, pc, launched, wg, panicked, localStatus, remoteStatus,
                   versionInfo, localStatusError, remoteStatusError,
                   versionInfoError, invoked, probe, data, response>>

VersionReturnPart001 ==
    /\ ~panicked /\ tpc["version"] = "fetching"
    /\ \E execFailed \in BOOLEAN, o \in ProbeOutputs :
         /\ out' = o
         /\ versionInfo' = GetNodeVersion(execFailed, o)[1]
         /\ versionInfoError' = GetNodeVersion(execFailed, o)[2]
    /\ tpc' = [tpc EXCEPT !["version"] = "fetched"]
    /\ UNCHANGED <<config, peer, pc, launched, wg, panicked, localStatus, remoteStatus,
                   releaseInfo, localStatusError, remoteStatusError,
                   releaseInfoError, invoked, jsonOutput, data, response>>

\* the if-chain of the variant: its second branch tests localStatusError
\* and returns remoteStatusError
ResolutionPart001 ==
    IF localStatusError # NoError THEN ErrData(localStatusError)
    ELSE IF localStatusError # NoError THEN ErrData(remoteStatusError)
    ELSE IF releaseInfoError # NoError THEN ErrData(releaseInfoError)
    ELSE IF versionInfoError # NoError THEN ErrData(versionInfoError)
    ELSE [releaseInfo |-> releaseInfo, versionInfo |-> versionInfo,
          localStatus |-> localStatus, remoteStatus |-> remoteStatus,
          err |-> NoError]

ResolvePart001 ==
    /\ ~panicked /\ pc = "resolve"
    /\ data' = ResolutionPart001
    /\ pc' = "returned"
    /\ UNCHANGED <<config, peer, launched, tpc, wg, panicked, slots, invoked, probe,
                   response>>

\* the seven gauges the variant sets, none of them behind a condition
SetGaugesPart001(d) ==
    {Sample("tendermint_node_catching_up", NodeLabels(d.localStatus),
            BoolToFloat64(d.localStatus.CatchingUp)),
     Sample("tendermint_node_voting_power", NodeLabels(d.localStatus),
            d.localStatus.VotingPower),
     Sample("tendermint_node_app_version",
            [id |-> d.localStatus.DefaultNodeID, moniker |-> d.localStatus.Moniker,
             version |-> d.versionInfo.Version], 1),
     Sample("tendermint_github_latest_version",
            [organization |-> GithubOrg, repository |-> GithubRepo,
             version |-> d.releaseInfo.TagName], 1),
     Sample("tendermint_latest_version_mismatch",
            [id |-> d.localStatus.DefaultNodeID, moniker |-> d.localStatus.Moniker,
             local_version |-> d.versionInfo.Version,
             remote_version |-> d.releaseInfo.TagName],
            BoolToFloat64(VersionMismatch(d.releaseInfo.TagName, d.versionInfo.Version))),
     Sample("tendermint_local_node_latest_block", NodeLabels(d.localStatus),
            d.localStatus.LatestBlockHeight),
     Sample("tendermint_remote_node_latest_block", NodeLabels(d.remoteStatus),
            d.remoteStatus.LatestBlockHeight)}

\* data.err == nil in the variant: every gauge is set, so a nil localStatus
\* or a nil remoteStatus is dereferenced; net/http recovers the panic of the
\* handler goroutine and drops the connection without a response
HandlerRenderPart001 ==
    /\ ~panicked /\ pc = "returned"
    /\ data.err = NoError
    /\ IF data.localStatus = NilStatus \/ data.remoteStatus = NilStatus
       THEN /\ pc' = "aborted"
            /\ UNCHANGED response
       ELSE /\ response' = [written |-> TRUE, status |-> StatusOK,
                            body |-> "", rendered |-> TRUE,
                            gauges |-> SetGaugesPart001(data)]
            /\ pc' = "responded"
    /\ UNCHANGED <<config, peer, launched, tpc, wg, panicked, slots, invoked, probe, data>>

\* one scrape of the variant; the go statements, wg.Add, wg.Wait, wg.Done and
\* the 500 branch read as in the current program
NextPart001 ==
    \/ HandlerBegin
    \/ Go
    \/ Add
    \/ Wait
    \/ ResolvePart001
    \/ HandlerFail
    \/ HandlerRenderPart001
    \/ LocalBeginPart001
    \/ LocalReturnPart001
    \/ LocalDone
    \/ RemoteBeginPart001
    \/ RemoteReturnPart001
    \/ RemoteDone
    \/ ReleaseBeginPart001
    \/ ReleaseReturnPart001
    \/ ReleaseDone
    \/ VersionBeginPart001
    \/ VersionReturnPart001
    \/ VersionDone

SpecPart001 == InitPart001 /\ [][NextPart001]_vars

----------------------------------------------------------------------------
(* The version probe on every captured output up to MaxOutLen tokens *)

OutputAlphabet == {"{", "}", "\n", "\r", " ", "x", "M1"}

Outputs(n) == UNION {[1..k -> OutputAlphabet] : k \in 0..n}

\* only the binary path is configured; the three other goroutines are done,
\* the probe goroutine is inside GetBinaryVersion
InitProbe ==
    /\ RemoteTendermintRpc = ""
    /\ GithubOrg = ""
    /\ GithubRepo = ""
    /\ BinaryPath = "/usr/bin/gaiad"
    /\ pc = "wait"
    /\ launched = 4
    /\ tpc = [t \in Tasks |-> IF t = "version" THEN "fetching" ELSE "done"]
    /\ wg = 1
    /\ panicked = FALSE
    /\ localStatus = Status("L", "localnode", FALSE, 100, 5)
    /\ remoteStatus = NilStatus
    /\ releaseInfo = ZeroReleaseInfo
    /\ versionInfo = ZeroVersionInfo
    /\ localStatusError = NoError
    /\ remoteStatusError = NoError
    /\ releaseInfoError = NoError
    /\ versionInfoError = NoError
    /\ invoked = [t \in Tasks |-> IF t \in {"local", "version"} THEN 1 ELSE 0]
    /\ out = <<>>
    /\ jsonOutput = <<>>
    /\ data = NoData
    /\ response = NoResponse
    /\ peer = "idle"

ProbeAnyOutput ==
    /\ tpc["version"] = "fetching"
    /\ \E execFailed \in BOOLEAN, o \in Outputs(MaxOutLen) : ProbeReturn(execFailed, o)

NextProbe == ProbeAnyOutput

SpecProbe == InitProbe /\ [][NextProbe]_vars

----------------------------------------------------------------------------
(* Handler on every successful Data value with versions up to MaxVerLen *)

VersionAlphabet == {"v", "1", "2"}

VersionStrings(n) == UNION {[1..k -> VersionAlphabet] : k \in 0..n}

\* everything is configured, GetAllData is about to return without error
InitRender ==
    /\ RemoteTendermintRpc = "https://rpc.cosmos.network:443"
    /\ GithubOrg = "cosmos"
    /\ GithubRepo = "gaia"
    /\ BinaryPath = "/usr/bin/gaiad"
    /\ pc = "resolve"
    /\ launched = 4
    /\ tpc = [t \in Tasks |-> "done"]
    /\ wg = 0
    /\ panicked = FALSE
    /\ localStatus \in NodeStatuses("local")
    /\ remoteStatus \in NodeStatuses("remote")
    /\ \E tag \in VersionStrings(MaxVerLen) :
         releaseInfo = [Name |-> "release", TagName |-> tag]
    /\ \E v \in VersionStrings(MaxVerLen) :
         versionInfo = [Name |-> "app", Version |-> v]
    /\ localStatusError = NoError
    /\ remoteStatusError = NoError
    /\ releaseInfoError = NoError
    /\ versionInfoError = NoError
    /\ invoked = [t \in Tasks |-> 1]
    /\ out = <<>>
    /\ jsonOutput = <<>>
    /\ data = NoData
    /\ response = NoResponse
    /\ peer = "idle"

NextRender == Resolve \/ HandlerRender

SpecRender == InitRender /\ [][NextRender]_vars

----------------------------------------------------------------------------
(* Properties *)

\* the controlling flow is past wg.Wait()
AfterJoin == pc \in {"resolve", "returned", "responded", "aborted"}

\* GetAllData has returned its Data value
Returned == pc \in {"returned", "responded", "aborted"}

\* the error slot of a task
ErrorOf(t) ==
    IF t = "local" THEN localStatusError
    ELSE IF t = "remote" THEN remoteStatusError
    ELSE IF t = "release" THEN releaseInfoError
    ELSE versionInfoError

\* the fetcher of task t was called and returned an error
Failed(t) == invoked[t] > 0 /\ ErrorOf(t) # NoError

\* the goroutine of task t ended without calling its fetcher
Skipped(t) == tpc[t] = "done" /\ invoked[t] = 0

\* C1: the reads of the four error slots after wg.Wait() are never reached
\* before every one of the four goroutines has completed, also when one of
\* them has already stored an error: the join waits for all, not for the
\* first failure.
C1_JoinAllComplete ==
    AfterJoin => \A t \in Tasks : tpc[t] = "done"

\* the join was passed in a run where the local fetch failed and the three
\* other fetches ran and succeeded
C1_Witness ==
    /\ pc = "resolve"
    /\ localStatusError # NoError
    /\ remoteStatus # NilStatus
    /\ invoked["release"] = 1 /\ releaseInfoError = NoError
    /\ invoked["version"] = 1 /\ versionInfoError = NoError

\* C2: the error GetAllData returns is the first non-nil error in the order
\* local status, remote status, release, version probe; it is nil exactly
\* when no fetch that ran has failed; a local-status error is returned
\* whatever the other fetches returned.
C2_FirstErrorInFixedOrder ==
    Returned =>
        LET errs == <<localStatusError, remoteStatusError,
                      releaseInfoError, versionInfoError>> IN
        /\ \A i \in 1..4 :
              (errs[i] # NoError /\ \A j \in 1..(i - 1) : errs[j] = NoError)
                  => data.err = errs[i]
        /\ (data.err = NoError) <=> (\A t \in Tasks : ~Failed(t))
        /\ Failed("local") => data.err = localStatusError

\* local and remote both failed, the release fetch succeeded, and the local
\* error was returned
C2_Witness ==
    /\ pc = "returned"
    /\ Failed("local") /\ Failed("remote")
    /\ invoked["release"] = 1 /\ ~Failed("release")
    /\ data.err = localStatusError
    /\ data.err # remoteStatusError

\* C3: a scrape whose aggregate error is set is answered with status 500 and
\* the body "Error fetching data: " followed by the error's message, the
\* registry is not served and no gauge is set; a scrape whose aggregate
\* error is unset never takes the 500 path.
C3_ErrorMeans500 ==
    pc \in {"responded", "aborted"} =>
        /\ data.err # NoError =>
              /\ response.written
              /\ response.status = StatusInternalServerError
              /\ response.body = "Error fetching data: " \o data.err.msg
              /\ ~response.rendered
              /\ response.gauges = {}
        /\ data.err = NoError =>
              (response.written => response.status # StatusInternalServerError)

\* a failed scrape was answered
C3_Witness ==
    /\ pc = "responded"
    /\ data.err = Err("release", "timeout")
    /\ response.status = StatusInternalServerError
    /\ response.body = "Error fetching data: timeout"

\* C4: in one run of GetAllData the local-status fetcher is always called,
\* the remote-status fetcher if and only if the remote RPC URL is non-empty,
\* the release fetcher if and only if organization and repository are both
\* non-empty, the version probe if and only if the binary path is non-empty.
C4_InvokedIffConfigured ==
    /\ invoked["remote"] > 0 => RemoteTendermintRpc # ""
    /\ invoked["release"] > 0 => (GithubOrg # "" /\ GithubRepo # "")
    /\ invoked["version"] > 0 => BinaryPath # ""
    /\ AfterJoin =>
          /\ invoked["local"] > 0
          /\ RemoteTendermintRpc # "" => invoked["remote"] > 0
          /\ (GithubOrg # "" /\ GithubRepo # "") => invoked["release"] > 0
          /\ BinaryPath # "" => invoked["version"] > 0

\* a run with the organization but no repository: the release fetcher was
\* not called while the remote fetcher was
C4_Witness ==
    /\ pc = "returned"
    /\ GithubOrg # "" /\ GithubRepo = ""
    /\ invoked["release"] = 0
    /\ RemoteTendermintRpc # "" /\ invoked["remote"] = 1
    /\ invoked["local"] = 1

\* the result slot of a task, in the locals of GetAllData and in Data
SlotEmpty(t) ==
    IF t = "local" THEN localStatus = NilStatus /\ data.localStatus = NilStatus
    ELSE IF t = "remote" THEN remoteStatus = NilStatus /\ data.remoteStatus = NilStatus
    ELSE IF t = "release"
         THEN releaseInfo = ZeroReleaseInfo /\ data.releaseInfo = ZeroReleaseInfo
    ELSE versionInfo = ZeroVersionInfo /\ data.versionInfo = ZeroVersionInfo

\* C5: a skipped task never makes the scrape fail and leaves its slot
\* empty: the returned error never belongs to a skipped task, the slot of a
\* skipped task is nil or zero-valued, and with remote URL, org/repo and
\* binary path all unset the scrape fails if and only if the local-status
\* fetch fails.
C5_SkippedNeverFails ==
    Returned =>
        /\ \A t \in Tasks :
              Skipped(t) => /\ data.err.of # t
                            /\ ErrorOf(t) = NoError
                            /\ SlotEmpty(t)
        /\ (RemoteTendermintRpc = "" /\ (GithubOrg = "" \/ GithubRepo = "")
              /\ BinaryPath = "")
              => ((data.err # NoError) <=> Failed("local"))

\* nothing optional is configured and the scrape succeeded with three
\* skipped tasks
C5_Witness ==
    /\ pc = "returned"
    /\ RemoteTendermintRpc = "" /\ GithubOrg = "" /\ BinaryPath = ""
    /\ Skipped("remote") /\ Skipped("release") /\ Skipped("version")
    /\ data.err = NoError
    /\ data.localStatus # NilStatus

\* C6: every Data value GetAllData returns has, when err is set, a nil
\* localStatus, a nil remoteStatus and zero-valued releaseInfo and
\* versionInfo, and, when err is unset, a non-nil localStatus.
C6_ErrorVoidsData ==
    Returned =>
        /\ data.err # NoError =>
              /\ data.localStatus = NilStatus
              /\ data.remoteStatus = NilStatus
              /\ data.releaseInfo = ZeroReleaseInfo
              /\ data.versionInfo = ZeroVersionInfo
        /\ data.err = NoError => data.localStatus # NilStatus

\* the version probe failed after the three other fetches had stored
\* results, and none of them is in the returned Data
C6_Witness ==
    /\ pc = "returned"
    /\ data.err = versionInfoError /\ data.err # NoError
    /\ localStatus # NilStatus /\ remoteStatus # NilStatus
    /\ releaseInfo # ZeroReleaseInfo
    /\ data.releaseInfo = ZeroReleaseInfo

\* the response carries a sample of the gauge called n
HasSample(n) == \E g \in response.gauges : g.name = n

\* C7: on a successful scrape the app-version gauge is emitted only if
\* version info is present, the github-latest-version gauge only if release
\* info is present, the version-mismatch gauge only if both are present and
\* the remote-node-latest-block gauge only if remote status is present; a
\* gauge whose input was skipped is absent, not rendered with an empty value.
C7_OptionalGaugesOnlyWhenPresent ==
    (response.written /\ response.rendered) =>
        /\ HasSample("tendermint_node_app_version")
              => (invoked["version"] > 0 /\ data.versionInfo.Version # <<>>)
        /\ HasSample("tendermint_github_latest_version")
              => (invoked["release"] > 0 /\ data.releaseInfo.TagName # <<>>)
        /\ HasSample("tendermint_latest_version_mismatch")
              => /\ invoked["version"] > 0 /\ data.versionInfo.Version # <<>>
                 /\ invoked["release"] > 0 /\ data.releaseInfo.TagName # <<>>
        /\ HasSample("tendermint_remote_node_latest_block")
              => (invoked["remote"] > 0 /\ data.remoteStatus # NilStatus)
        /\ Skipped("version")
              => /\ ~HasSample("tendermint_node_app_version")
                 /\ ~HasSample("tendermint_latest_version_mismatch")
        /\ Skipped("release")
              => /\ ~HasSample("tendermint_github_latest_version")
                 /\ ~HasSample("tendermint_latest_version_mismatch")
        /\ Skipped("remote") => ~HasSample("tendermint_remote_node_latest_block")
        /\ \A g \in response.gauges :
              /\ g.name \in {"tendermint_node_app_version",
                             "tendermint_github_latest_version"}
                    => g.labels.version # <<>>
              /\ g.name = "tendermint_latest_version_mismatch"
                    => (g.labels.local_version # <<>> /\ g.labels.remote_version # <<>>)

\* a successful scrape without a binary path: release and remote gauges are
\* there, app version and mismatch are not
C7_Witness ==
    /\ response.written /\ response.rendered
    /\ Skipped("version")
    /\ HasSample("tendermint_github_latest_version")
    /\ HasSample("tendermint_remote_node_latest_block")
    /\ ~HasSample("tendermint_node_app_version")
    /\ ~HasSample("tendermint_latest_version_mismatch")

\* a occurs in b as a contiguous block
IsSubstringOf(a, b) ==
    \E i \in 1..(Len(b) + 1), j \in 0..Len(b) : SubSeq(b, i, j) = a

\* C8: for every pair of non-empty version strings (local version v,
\* release tag t) the version-mismatch gauge is 0 if v is a substring of t
\* or t is a substring of v and 1 otherwise, and the pair taken the other
\* way round gives the same value.
C8_MismatchIsSymmetricSubstringRule ==
    (response.written /\ response.rendered
        /\ data.versionInfo.Version # <<>> /\ data.releaseInfo.TagName # <<>>) =>
        LET v == data.versionInfo.Version
            t == data.releaseInfo.TagName IN
        /\ HasSample("tendermint_latest_version_mismatch")
        /\ \A g \in response.gauges :
              g.name = "tendermint_latest_version_mismatch" =>
                  /\ g.value = (IF IsSubstringOf(v, t) \/ IsSubstringOf(t, v)
                                THEN 0 ELSE 1)
                  /\ g.value = BoolToFloat64(VersionMismatch(v, t))

\* the tag is a proper substring of the local version and the gauge is 0
C8_Witness ==
    /\ response.written /\ response.rendered
    /\ data.versionInfo.Version = <<"v", "1">>
    /\ data.releaseInfo.TagName = <<"1">>
    /\ \E g \in response.gauges :
          g.name = "tendermint_latest_version_mismatch" /\ g.value = 0

\* GetBinaryVersion got an output from the binary and went on to decode it
ProbeDecoded ==
    /\ tpc["version"] \in {"fetched", "done"}
    /\ invoked["version"] > 0
    /\ versionInfoError.msg # "exit status 1"

\* the line itself begins with { and ends with }
RawJsonLine(l) == Len(l) >= 1 /\ l[1] = "{" /\ l[Len(l)] = "}"

\* the line begins with { and ends with } once surrounding whitespace is cut
TrimmedJsonLine(l) == RawJsonLine(SkipSpaceRight(SkipSpaceLeft(l)))

\* C9 as stated: getJsonString returns the first line whose trimmed content
\* begins with { and ends with }, whenever there is one.
C9_FirstTrimmedJsonLine ==
    ProbeDecoded =>
        LET lines == Split(out) IN
        \A k \in 1..Len(lines) :
            (TrimmedJsonLine(lines[k])
                /\ \A j \in 1..(k - 1) : ~TrimmedJsonLine(lines[j]))
            => jsonOutput \in {lines[k], SkipSpaceRight(SkipSpaceLeft(lines[k]))}

\* C9: getJsonString returns the first line that itself, untrimmed, begins
\* with { and ends with }, whenever there is one; non-JSON lines before or
\* after it do not prevent its selection.
C9_FirstRawJsonLine ==
    ProbeDecoded =>
        LET lines == Split(out) IN
        \A k \in 1..Len(lines) :
            (RawJsonLine(lines[k]) /\ \A j \in 1..(k - 1) : ~RawJsonLine(lines[j]))
            => jsonOutput = lines[k]

\* the JSON line is the second of three, between two non-empty log lines
C9_Witness ==
    /\ ProbeDecoded
    /\ Len(Split(out)) = 3
    /\ Split(out)[1] # <<>> /\ Split(out)[3] # <<>>
    /\ RawJsonLine(Split(out)[2])
    /\ jsonOutput = Split(out)[2]
    /\ versionInfoError = NoError

\* no line of the captured output begins with { and ends with }
NoRawJsonLine == \A k \in 1..Len(Split(out)) : ~RawJsonLine(Split(out)[k])

C11_ScrapesIndependent ==
    peer = "running" => ENABLED PeerRespond

\* the samples of the gauge called n in the response
SamplesOf(n) == {g \in response.gauges : g.name = n}

\* C12: on a successful scrape the catching-up, voting-power and
\* local-node-latest-block gauges are each emitted exactly once, labelled
\* with the local node's id and moniker, with the values 1/0 for the local
\* catching-up flag, the local voting power and the local latest block
\* height; the remote-node-latest-block gauge, when emitted, carries the
\* remote node's id, moniker and height and never the local node's.
C12_StatusGaugesCarryTheirNode ==
    (response.written /\ response.rendered) =>
        LET local == [id |-> localStatus.DefaultNodeID,
                      moniker |-> localStatus.Moniker] IN
        /\ SamplesOf("tendermint_node_catching_up") =
              {[name |-> "tendermint_node_catching_up", labels |-> local,
                value |-> IF localStatus.CatchingUp THEN 1 ELSE 0]}
        /\ SamplesOf("tendermint_node_voting_power") =
              {[name |-> "tendermint_node_voting_power", labels |-> local,
                value |-> localStatus.VotingPower]}
        /\ SamplesOf("tendermint_local_node_latest_block") =
              {[name |-> "tendermint_local_node_latest_block", labels |-> local,
                value |-> localStatus.LatestBlockHeight]}
        /\ Cardinality(SamplesOf("tendermint_remote_node_latest_block")) <= 1
        /\ \A g \in SamplesOf("tendermint_remote_node_latest_block") :
              /\ remoteStatus # NilStatus
              /\ g.labels = [id |-> remoteStatus.DefaultNodeID,
                             moniker |-> remoteStatus.Moniker]
              /\ g.value = remoteStatus.LatestBlockHeight
              /\ remoteStatus.DefaultNodeID # localStatus.DefaultNodeID
                    => g.labels.id # localStatus.DefaultNodeID

\* a rendered scrape of a local node that is catching up, with the remote
\* gauge emitted
C12_Witness ==
    /\ response.written /\ response.rendered
    /\ localStatus # NilStatus /\ localStatus.CatchingUp
    /\ \E g \in response.gauges :
          g.name = "tendermint_node_catching_up" /\ g.value = 1
    /\ \E g \in response.gauges :
          g.name = "tendermint_remote_node_latest_block" /\ g.labels.id = "R"

\* the goroutine of task t has stored what its fetcher returned
FetchReturned(t) == invoked[t] > 0 /\ tpc[t] \in {"fetched", "done"}

\* C13: GetNodeStatus never returns a nil status together with a nil error:
\* a status query that ends without transport error but with a nil
\* response is returned as an error, so that such a local response makes
\* the whole scrape fail instead of rendering zero values.
C13_NilStatusIsAnError ==
    /\ FetchReturned("local") => ~(localStatus = NilStatus /\ localStatusError = NoError)
    /\ FetchReturned("remote") => ~(remoteStatus = NilStatus /\ remoteStatusError = NoError)
    /\ (pc = "responded" /\ localStatus = NilStatus) =>
          /\ response.status = StatusInternalServerError
          /\ ~response.rendered
    /\ pc # "aborted"

\* the local node answered with an empty status and the scrape was answered
\* with 500 and that error
C13_Witness ==
    /\ pc = "responded"
    /\ localStatus = NilStatus
    /\ localStatusError = Err("local", "empty status from node")
    /\ response.status = StatusInternalServerError
    /\ response.body = "Error fetching data: empty status from node"

\* C14: within one scrape each of the four fetchers (local status, remote
\* status, release, version probe) is called at most once: a fetch that
\* failed is not called again before the response, whatever the failure.
C14_NoRetry ==
    /\ \A t \in Tasks : invoked[t] <= 1
    /\ \A t \in Tasks : Failed(t) => tpc[t] \in {"fetched", "done"}

\* a scrape answered after the remote query, the release fetch and the
\* probe had all failed, each called once
C14_Witness ==
    /\ pc = "responded"
    /\ Failed("remote") /\ Failed("release") /\ Failed("version")
    /\ \A t \in Tasks : invoked[t] = 1

\* the result slot and the error slot of task t
SlotsOf(t) ==
    IF t = "local" THEN <<localStatus, localStatusError>>
    ELSE IF t = "remote" THEN <<remoteStatus, remoteStatusError>>
    ELSE IF t = "release" THEN <<releaseInfo, releaseInfoError>>
    ELSE <<versionInfo, versionInfoError>>

\* C15: within one run of GetAllData each task writes only its own result
\* slot and error slot and leaves the slots of the three other tasks
\* unchanged, and the controlling flow reads no slot before the join.
C15_TasksWriteOnlyOwnSlots ==
    [][/\ \A t \in Tasks :
             SlotsOf(t)' # SlotsOf(t)
                 => /\ tpc[t] = "fetching" /\ tpc'[t] = "fetched"
                    /\ \A u \in Tasks \ {t} : SlotsOf(u)' = SlotsOf(u)
       /\ \A t \in Tasks :
             (tpc[t] = "fetching" /\ tpc'[t] = "fetched")
                 => \A u \in Tasks \ {t} : SlotsOf(u)' = SlotsOf(u)
       /\ data' # data => \A t \in Tasks : tpc[t] = "done"
      ]_vars

\* the remote goroutine has stored its status while the local goroutine is
\* still inside its fetch and the local slots are untouched
C15_Witness ==
    /\ pc = "wait"
    /\ tpc["remote"] = "fetched" /\ remoteStatus # NilStatus
    /\ tpc["local"] = "fetching"
    /\ localStatus = NilStatus /\ localStatusError = NoError
    /\ tpc["release"] = "fetched" /\ releaseInfoError # NoError

\* C16 (as stated; violated by the variant): once the variant's GetAllData
\* has returned with the local status fetched and the remote status failed,
\* the aggregate error is the remote-status error, and Handler does not
\* arrive at the remote-node-latest-block gauge with a nil remote status.
C16_RemoteFailureReported ==
    (Returned /\ ~Failed("local") /\ Failed("remote")) =>
        /\ data.err = remoteStatusError
        /\ ~(pc = "aborted" /\ data.localStatus # NilStatus
                            /\ data.remoteStatus = NilStatus)

\* C17 (as stated; violated): in every reachable state of a scrape the
\* WaitGroup counter is at least 0 and no wg.Done has panicked.
C17_CounterNeverNegative == wg >= 0 /\ ~panicked

\* C18 (as stated; violated): a scrape in which no fetcher is still running
\* can only come to a stop after Handler has written its one response, the
\* 500 error or the rendered exposition.
C18_ScrapeEndsWithOneResponse ==
    (~ENABLED Next /\ \A t \in Tasks : tpc[t] # "fetching") =>
        /\ pc = "responded"
        /\ response.written
        /\ (response.status = StatusInternalServerError) # response.rendered

====
